---- MODULE Spec2Model ----
(***************************************************************************)
(* Model of OpenAddressingSet (src/open_addressing_set.py): a hash set     *)
(* with open addressing, linear probing and load-factor triggered growth.  *)
(*                                                                         *)
(* A set object is a record [capacity, size, growth_factor, buckets,       *)
(* status].  buckets is a function on 0..capacity-1 (a Python list).       *)
(* Keys are non-negative Python ints, for which hash(key) = key.  status   *)
(* is the position of the caller's thread: "ok" when every call so far     *)
(* returned, "loop" when a call is stuck forever in a probe loop,          *)
(* "ZeroDivisionError" or "IndexError" when a call raised (capacity 0 in   *)
(* a division or modulo, or an index into an empty bucket list).           *)
(*                                                                         *)
(* History variables: abs is the mathematical set the calls describe; hist *)
(* records the last call (op, key), the number of remove calls, the        *)
(* capacity the set was constructed with, and whether every call so far    *)
(* was an add of a key never added before (only_new); for an add, whether  *)
(* its key was a member when it was called (stored) and whether the call   *)
(* changed capacity (grew).                                                *)
(***************************************************************************)
EXTENDS Integers, Sequences, FiniteSets, TLC

(* ------------------------------ bounds -------------------------------- *)
MaxKey == 5
MaxCapacity == 16
MaxRemoves == 2
MaxListLen == 13
MaxMonoidLen == 4

Keys == 0..MaxKey

(* constructor arguments tried: the capacities of the tests (1, 4, 8) and   *)
(* two capacities that are not powers of two; growth factors 2 and 3        *)
InitialCapacities == {1, 2, 3, 4, 8}
GrowthFactors == {2, 3}

(* --------------------------- program constants ------------------------ *)
EMPTY == -1
DefaultCapacity == 8
DefaultGrowthFactor == 2

VARIABLES s, abs, hist, pc, lst_a, lst_b, lst_c, r1, r2, r3, heap, call, it

vars == <<s, abs, hist, pc, lst_a, lst_b, lst_c, r1, r2, r3, heap, call, it>>

(* the add/remove machine uses s, abs, hist; the test machines use pc, the  *)
(* lists and r1..r3; the machine of the derived sets uses heap (the set     *)
(* objects by identity: a is 1, b is 2, a set made by filter or map is 3)   *)
(* and call (the last of concat, filter, map: op, argument, returned        *)
(* object; pre is the heap before the last call of any kind);               *)
(* the iteration machine uses it                                            *)
machine == <<s, abs, hist>>
objects == <<heap, call>>
tests == <<pc, lst_a, lst_b, lst_c, r1, r2, r3, heap, call, it>>

(* ------------------------------ the class ----------------------------- *)
NewSet(initial_capacity, growth_factor) ==
    [capacity |-> initial_capacity,
     size |-> 0,
     growth_factor |-> growth_factor,
     buckets |-> [i \in 0..(initial_capacity - 1) |-> EMPTY],
     status |-> "ok"]

PyHash(key) == key

Hash(set, key) == PyHash(key) % set.capacity

(* mutant of ProbeFrom: the walk stops at Empty slots only *)
RECURSIVE ProbeFromFirstEmpty(_, _, _, _)
ProbeFromFirstEmpty(set, key, index, fuel) ==
    IF set.buckets[index] # EMPTY
    THEN IF fuel = 0 THEN -1
         ELSE ProbeFromFirstEmpty(set, key, (index + 1) % set.capacity, fuel - 1)
    ELSE index

RECURSIVE ProbeFrom(_, _, _, _)
ProbeFrom(set, key, index, fuel) ==
    IF set.buckets[index] # EMPTY /\ set.buckets[index] # key
    THEN IF fuel = 0 THEN -1
         ELSE ProbeFrom(set, key, (index + 1) % set.capacity, fuel - 1)
    ELSE index

Probe(set, key) == ProbeFrom(set, key, Hash(set, key), set.capacity)

(* mutants of OverLoad: the load computed from size instead of size + 1;  *)
(* a threshold of 0.75 instead of 0.7                                     *)
OverLoadOfSize(set) == 10 * set.size > 7 * set.capacity

OverLoadThreeQuarters(set) == 4 * (set.size + 1) > 3 * set.capacity

(* (size + 1) / capacity > 0.7, for capacity # 0 *)
OverLoad(set) == set.capacity > 0 /\ 10 * (set.size + 1) > 7 * set.capacity

(* what evaluating hash(key) % capacity and buckets[index] does to a call: *)
(* a list of length max(capacity, 0) has no valid index when capacity <= 0 *)
Indexing(set) ==
    IF set.capacity = 0 THEN "ZeroDivisionError"
    ELSE IF set.capacity < 0 THEN "IndexError"
    ELSE "ok"

RECURSIVE Add(_, _)
RECURSIVE ReAdd(_, _, _, _)

(* mutant of ResizeStart: the capacity grows by addition *)
ResizeStartAdditive(set) ==
    LET capacity == set.capacity + set.growth_factor
    IN [set EXCEPT !.capacity = capacity,
                   !.buckets = [i \in 0..(capacity - 1) |-> EMPTY],
                   !.size = 0]

(* mutant of ResizeStart: size is not reset *)
ResizeStartKeepSize(set) ==
    LET capacity == set.capacity * set.growth_factor
    IN [set EXCEPT !.capacity = capacity,
                   !.buckets = [i \in 0..(capacity - 1) |-> EMPTY]]

(* _resize up to the loop: the table is reallocated and size reset *)
ResizeStart(set) ==
    LET capacity == set.capacity * set.growth_factor
    IN [set EXCEPT !.capacity = capacity,
                   !.buckets = [i \in 0..(capacity - 1) |-> EMPTY],
                   !.size = 0]

Resize(set) ==
    LET old_buckets == set.buckets
    IN ReAdd(ResizeStart(set), old_buckets, 0, Cardinality(DOMAIN old_buckets))

(* mutant of ReAdd: the loop ends at the first Empty slot of the old table *)
RECURSIVE ReAddUntilEmpty(_, _, _, _)
ReAddUntilEmpty(set, old_buckets, i, n) ==
    IF i >= n \/ set.status # "ok" THEN set
    ELSE IF old_buckets[i] # EMPTY
         THEN ReAddUntilEmpty(Add(set, old_buckets[i]), old_buckets, i + 1, n)
         ELSE set

(* the loop of _resize over old_buckets[i..n-1] *)
ReAdd(set, old_buckets, i, n) ==
    IF i >= n \/ set.status # "ok" THEN set
    ELSE IF old_buckets[i] # EMPTY
         THEN ReAdd(Add(set, old_buckets[i]), old_buckets, i + 1, n)
         ELSE ReAdd(set, old_buckets, i + 1, n)

(* mutant of Add: the load test is made after the probe, for new keys only *)
AddProbeFirst(set, key) ==
    IF set.status # "ok" THEN set
    ELSE IF Indexing(set) # "ok" THEN [set EXCEPT !.status = Indexing(set)]
    ELSE IF Probe(set, key) # -1 /\ set.buckets[Probe(set, key)] = key THEN set
    ELSE LET grown == IF OverLoad(set) THEN Resize(set) ELSE set
             index == Probe(grown, key)
         IN IF grown.status # "ok" THEN grown
            ELSE IF index = -1 THEN [grown EXCEPT !.status = "loop"]
            ELSE [grown EXCEPT !.buckets[index] = key, !.size = grown.size + 1]

Add(set, key) ==
    IF set.status # "ok" THEN set
    ELSE IF set.capacity = 0 THEN [set EXCEPT !.status = "ZeroDivisionError"]
    ELSE LET grown == IF OverLoad(set) THEN Resize(set) ELSE set
         IN IF grown.status # "ok" THEN grown
            ELSE IF Indexing(grown) # "ok"
            THEN [grown EXCEPT !.status = Indexing(grown)]
            ELSE LET index == Probe(grown, key)
                 IN IF index = -1 THEN [grown EXCEPT !.status = "loop"]
                    ELSE IF grown.buckets[index] = EMPTY
                         THEN [grown EXCEPT !.buckets[index] = key,
                                            !.size = grown.size + 1]
                         ELSE grown

(* mutant of RemoveFrom: size is not decremented *)
RECURSIVE RemoveFromKeepSize(_, _, _, _)
RemoveFromKeepSize(set, key, index, fuel) ==
    IF set.buckets[index] # EMPTY
    THEN IF set.buckets[index] = key
         THEN [set EXCEPT !.buckets[index] = EMPTY]
         ELSE IF fuel = 0 THEN [set EXCEPT !.status = "loop"]
              ELSE RemoveFromKeepSize(set, key, (index + 1) % set.capacity,
                                      fuel - 1)
    ELSE set

RECURSIVE RemoveFrom(_, _, _, _)
RemoveFrom(set, key, index, fuel) ==
    IF set.buckets[index] # EMPTY
    THEN IF set.buckets[index] = key
         THEN [set EXCEPT !.buckets[index] = EMPTY, !.size = set.size - 1]
         ELSE IF fuel = 0 THEN [set EXCEPT !.status = "loop"]
              ELSE RemoveFrom(set, key, (index + 1) % set.capacity, fuel - 1)
    ELSE set

RemoveWalkFromZero(set, key) ==
    IF set.status # "ok" THEN set
    ELSE IF Indexing(set) # "ok" THEN [set EXCEPT !.status = Indexing(set)]
    ELSE RemoveFrom(set, key, 0, set.capacity)

Remove(set, key) ==
    IF set.status # "ok" THEN set
    ELSE IF Indexing(set) # "ok" THEN [set EXCEPT !.status = Indexing(set)]
    ELSE RemoveFrom(set, key, Hash(set, key), set.capacity)

RECURSIVE MemberFrom(_, _, _, _)
MemberFrom(set, key, index, fuel) ==
    IF set.buckets[index] # EMPTY
    THEN IF set.buckets[index] = key THEN "True"
         ELSE IF fuel = 0 THEN "loop"
              ELSE MemberFrom(set, key, (index + 1) % set.capacity, fuel - 1)
    ELSE "False"

Member(set, key) ==
    IF Indexing(set) # "ok" THEN Indexing(set)
    ELSE MemberFrom(set, key, Hash(set, key), set.capacity)

RECURSIVE ToListFrom(_, _)
ToListFrom(buckets, i) ==
    IF i >= Cardinality(DOMAIN buckets) THEN <<>>
    ELSE IF buckets[i] # EMPTY
         THEN <<buckets[i]>> \o ToListFrom(buckets, i + 1)
         ELSE ToListFrom(buckets, i + 1)

ToList(set) == ToListFrom(set.buckets, 0)

RECURSIVE FromListFrom(_, _, _)
FromListFrom(set, lst, i) ==
    IF i > Len(lst) THEN set
    ELSE FromListFrom(Add(set, lst[i]), lst, i + 1)

FromList(set, lst) == FromListFrom(set, lst, 1)

Empty == NewSet(DefaultCapacity, DefaultGrowthFactor)

RECURSIVE ConcatFrom(_, _, _)
ConcatFrom(set, other_buckets, i) ==
    IF i >= Cardinality(DOMAIN other_buckets) THEN set
    ELSE IF other_buckets[i] # EMPTY
         THEN ConcatFrom(Add(set, other_buckets[i]), other_buckets, i + 1)
         ELSE ConcatFrom(set, other_buckets, i + 1)

(* mutant of Concat: the loop starts at the second bucket *)
ConcatFromSecond(set, other_set) == ConcatFrom(set, other_set.buckets, 1)

(* mutant of Concat: the loop runs over the receiver's own buckets *)
ConcatOwnBuckets(set, other_set) == ConcatFrom(set, set.buckets, 0)

Concat(set, other_set) == ConcatFrom(set, other_set.buckets, 0)

RECURSIVE FilterFrom(_, _, _, _)
FilterFrom(new_set, buckets, i, predicate) ==
    IF i >= Cardinality(DOMAIN buckets) THEN new_set
    ELSE IF buckets[i] # EMPTY /\ predicate[buckets[i]]
         THEN FilterFrom(Add(new_set, buckets[i]), buckets, i + 1, predicate)
         ELSE FilterFrom(new_set, buckets, i + 1, predicate)

(* mutant of Filter: the new set is built with the default arguments *)
FilterIntoDefault(set, predicate) ==
    FilterFrom(Empty, set.buckets, 0, predicate)

Filter(set, predicate) ==
    FilterFrom(NewSet(set.capacity, set.growth_factor), set.buckets, 0, predicate)

RECURSIVE MapFrom(_, _, _, _)
MapFrom(new_set, buckets, i, func) ==
    IF i >= Cardinality(DOMAIN buckets) THEN new_set
    ELSE IF buckets[i] # EMPTY
         THEN MapFrom(Add(new_set, func[buckets[i]]), buckets, i + 1, func)
         ELSE MapFrom(new_set, buckets, i + 1, func)

(* mutant of Map: the keys are added instead of their images *)
MapKeepsKeys(set, func) ==
    ConcatFrom(NewSet(set.capacity, set.growth_factor), set.buckets, 0)

Map(set, func) ==
    MapFrom(NewSet(set.capacity, set.growth_factor), set.buckets, 0, func)

(* __next__: the loop from self.iter_index; the key returned or            *)
(* StopIteration, and the value self.iter_index is left with               *)
RECURSIVE NextFrom(_, _)
NextFrom(set, iter_index) ==
    IF iter_index < set.capacity
    THEN IF set.buckets[iter_index] # EMPTY
         THEN [raised |-> "none", key |-> set.buckets[iter_index],
               iter_index |-> iter_index + 1]
         ELSE NextFrom(set, iter_index + 1)
    ELSE [raised |-> "StopIteration", key |-> EMPTY, iter_index |-> iter_index]

(* ------------------------------ inputs -------------------------------- *)
SeqsUpTo(S, n) == UNION {[1..m -> S] : m \in 0..n}

(* the lists handed to from_list and create_set in the add/remove machine: *)
(* empty, single, colliding in capacity 4, adjacent, duplicated, longer     *)
ArgLists == {<<>>, <<0>>, <<0, 4>>, <<1, 2>>, <<3, 3>>, <<4, 0, 5>>, <<2, 1, 2, 0>>}

(* start, start+stride, ... repeating after period elements *)
Run(start, n, stride, period) ==
    [i \in 1..n |-> start + stride * ((i - 1) % period)]

(* lists for from_list: every short list over three keys, and long runs    *)
(* that are dense (stride 1), collide in the default table (stride 8) or   *)
(* spread (stride 3), with and without repeated elements                   *)
FromListInputs ==
    SeqsUpTo(0..2, 3) \cup
    {Run(start, n, stride, period) :
        start \in {0, 5}, n \in 1..MaxListLen, stride \in {1, 3, 8},
        period \in 1..MaxListLen}

(* lists for the monoid tests *)
MonoidInputs ==
    {<<>>, <<0, 0>>, <<3, 1, 3>>, <<15, 7, 23>>, <<0, 1, 2, 3, 4, 0>>} \cup
    {Run(start, n, stride, n) :
        start \in {0, 1}, n \in 1..MaxMonoidLen, stride \in {1, 8}}

(* the sets handed to concat: create_set(lst) of the test file *)
CreateSet(lst) == FromList(Empty, lst)

(* the lists the sets a and b of the derived-set machine are built from,   *)
(* by add calls: empty, single, dense, colliding in the default table,     *)
(* wrapping around its end, repeated, and long enough to resize it         *)
DerivedInputs ==
    {<<>>, <<0>>, <<1, 2, 3>>, <<0, 8, 16>>, <<15, 7, 23>>, <<1, 2, 3, 4, 5>>,
     <<0, 1, 2, 3, 4, 0>>, <<2, 4, 6, 8, 10, 12>>}

DerivedKeys == UNION {{l[i] : i \in DOMAIN l} : l \in DerivedInputs}

(* predicates and functions handed to filter and map, as tables over the   *)
(* keys: lambda x: x % 2 == 0 and lambda x: x ** 2 of the tests, and       *)
(* others (everything, nothing, x < 3, x > 10; constant, x % 2, x + 8,     *)
(* identity)                                                               *)
Predicates ==
    {[x \in DerivedKeys |-> x % 2 = 0], [x \in DerivedKeys |-> TRUE],
     [x \in DerivedKeys |-> FALSE], [x \in DerivedKeys |-> x < 3],
     [x \in DerivedKeys |-> x > 10]}

Functions ==
    {[x \in DerivedKeys |-> x * x], [x \in DerivedKeys |-> 0],
     [x \in DerivedKeys |-> x % 2], [x \in DerivedKeys |-> x + 8],
     [x \in DerivedKeys |-> x]}

(* keys added to or removed from a returned set *)
MutationKeys == {0, 1, 9}

(* the variables of the machines that are not running *)
Idle ==
    /\ heap = <<>>
    /\ call = [op |-> "none", arg |-> <<>>, ret |-> 0, pre |-> <<>>]
    /\ it = [iter_index |-> -1, state |-> <<>>, out |-> <<>>]

(* --------------------------- the add/remove machine ------------------- *)
Init ==
    /\ \E c \in InitialCapacities :
       \E g \in GrowthFactors :
          /\ s = NewSet(c, g)
          /\ hist = [op |-> "new", key |-> EMPTY, removes |-> 0,
                     initial_capacity |-> c, only_new |-> TRUE,
               stored |-> FALSE, grew |-> FALSE]
    /\ abs = {}
    /\ pc = "machine"
    /\ lst_a = <<>> /\ lst_b = <<>> /\ lst_c = <<>>
    /\ r1 = Empty /\ r2 = Empty /\ r3 = Empty
    /\ Idle

AddOp(key) ==
    /\ s.status = "ok"
    /\ LET t == Add(s, key)
       IN t.capacity <= MaxCapacity /\ s' = t
    /\ abs' = abs \cup {key}
    /\ hist' = [hist EXCEPT !.op = "add", !.key = key,
                            !.only_new = hist.only_new /\ key \notin abs,
                            !.stored = (Member(s, key) = "True"),
                            !.grew = (Add(s, key).capacity # s.capacity)]
    /\ UNCHANGED tests

RemoveOp(key) ==
    /\ s.status = "ok"
    /\ hist.removes < MaxRemoves
    /\ s' = Remove(s, key)
    /\ abs' = abs \ {key}
    /\ hist' = [hist EXCEPT !.op = "remove", !.key = key,
                            !.removes = hist.removes + 1, !.only_new = FALSE,
                            !.stored = FALSE, !.grew = FALSE]
    /\ UNCHANGED tests

FromListOp(lst) ==
    /\ s.status = "ok"
    /\ LET t == FromList(s, lst)
       IN t.capacity <= MaxCapacity /\ s' = t
    /\ abs' = abs \cup {lst[i] : i \in 1..Len(lst)}
    /\ hist' = [hist EXCEPT !.op = "from_list", !.key = EMPTY, !.only_new = FALSE,
                            !.stored = FALSE, !.grew = FALSE]
    /\ UNCHANGED tests

ConcatOp(lst) ==
    /\ s.status = "ok"
    /\ LET t == Concat(s, CreateSet(lst))
       IN t.capacity <= MaxCapacity /\ s' = t
    /\ abs' = abs \cup {lst[i] : i \in 1..Len(lst)}
    /\ hist' = [hist EXCEPT !.op = "concat", !.key = EMPTY, !.only_new = FALSE,
                            !.stored = FALSE, !.grew = FALSE]
    /\ UNCHANGED tests

Next ==
    \/ \E key \in Keys : AddOp(key)
    \/ \E key \in Keys : RemoveOp(key)
    \/ \E lst \in ArgLists : FromListOp(lst)
    \/ \E lst \in ArgLists : ConcatOp(lst)

Spec == Init /\ [][Next]_vars

(* ------------ the add/remove machine under any constructor call ------ *)
(* constructor arguments around the limits initial_capacity = 1 and        *)
(* growth_factor = 2                                                       *)
ConfigCapacities == {-1, 0, 1, 2}
ConfigGrowthFactors == {-1, 0, 1, 2}

(* no object yet *)
Unconstructed ==
    [capacity |-> 0, size |-> 0, growth_factor |-> 0, buckets |-> <<>>,
     status |-> "unconstructed"]

InitConfig ==
    /\ s = Unconstructed
    /\ hist = [op |-> "none", key |-> EMPTY, removes |-> 0,
               initial_capacity |-> 0, only_new |-> TRUE,
               stored |-> FALSE, grew |-> FALSE]
    /\ abs = {}
    /\ pc = "machine"
    /\ lst_a = <<>> /\ lst_b = <<>> /\ lst_c = <<>>
    /\ r1 = Empty /\ r2 = Empty /\ r3 = Empty
    /\ Idle

(* OpenAddressingSet(initial_capacity, growth_factor) *)
Construct(initial_capacity, growth_factor) ==
    /\ s.status = "unconstructed"
    /\ s' = NewSet(initial_capacity, growth_factor)
    /\ hist' = [hist EXCEPT !.op = "new", !.initial_capacity = initial_capacity]
    /\ UNCHANGED abs
    /\ UNCHANGED tests

NextConfig ==
    \/ \E c \in ConfigCapacities : \E g \in ConfigGrowthFactors : Construct(c, g)
    \/ \E key \in Keys : AddOp(key)
    \/ \E key \in Keys : RemoveOp(key)
    \/ \E lst \in ArgLists : FromListOp(lst)
    \/ \E lst \in ArgLists : ConcatOp(lst)

SpecConfig == InitConfig /\ [][NextConfig]_vars

(* --------------------- the property tests as machines ----------------- *)
(* test_from_list_to_list_equality / test_python_len_and_set_size_equality *)
InitFromList ==
    /\ lst_a \in FromListInputs
    /\ lst_b = <<>> /\ lst_c = <<>>
    /\ pc = "new"
    /\ s = Empty
    /\ abs = {}
    /\ hist = [op |-> "new", key |-> EMPTY, removes |-> 0,
               initial_capacity |-> DefaultCapacity, only_new |-> TRUE,
               stored |-> FALSE, grew |-> FALSE]
    /\ r1 = Empty /\ r2 = Empty /\ r3 = Empty
    /\ Idle

FromListCall ==
    /\ pc = "new"
    /\ s' = FromList(s, lst_a)
    /\ pc' = "from_list"
    /\ UNCHANGED <<abs, hist, lst_a, lst_b, lst_c, r1, r2, r3, heap, call, it>>

NextFromList == FromListCall

SpecFromList == InitFromList /\ [][NextFromList]_vars

(* test_identity_property and test_associativity_property: r1, r2, r3 are  *)
(* the sets the test bodies end with                                       *)
InitMonoid ==
    /\ lst_a \in MonoidInputs
    /\ lst_b \in MonoidInputs
    /\ lst_c \in MonoidInputs
    /\ pc = "new"
    /\ s = Empty
    /\ abs = {}
    /\ hist = [op |-> "new", key |-> EMPTY, removes |-> 0,
               initial_capacity |-> DefaultCapacity, only_new |-> TRUE,
               stored |-> FALSE, grew |-> FALSE]
    /\ r1 = Empty /\ r2 = Empty /\ r3 = Empty
    /\ Idle

(* r1 = a after a.concat(empty()), r2 = a_copy, r3 = empty_set after       *)
(* empty_set.concat(a2)                                                    *)
IdentityTest ==
    /\ pc = "new"
    /\ r1' = Concat(CreateSet(lst_a), Empty)
    /\ r2' = CreateSet(lst_a)
    /\ r3' = Concat(Empty, CreateSet(lst_a))
    /\ pc' = "identity"
    /\ UNCHANGED <<machine, lst_a, lst_b, lst_c, heap, call, it>>

(* r1 = a1 after a1.concat(b1).concat(c1), r2 = a2 after b2.concat(c2);    *)
(* a2.concat(b2)                                                           *)
AssociativityTest ==
    /\ pc = "new"
    /\ r1' = Concat(Concat(CreateSet(lst_a), CreateSet(lst_b)), CreateSet(lst_c))
    /\ r2' = Concat(CreateSet(lst_a), Concat(CreateSet(lst_b), CreateSet(lst_c)))
    /\ pc' = "assoc"
    /\ UNCHANGED <<machine, lst_a, lst_b, lst_c, r3, heap, call, it>>

NextMonoid == IdentityTest \/ AssociativityTest

SpecMonoid == InitMonoid /\ [][NextMonoid]_vars

(* ------------------- the machine of the derived sets ------------------ *)
(* a and b are two set objects built by add calls; one of concat, filter   *)
(* and map is called on a; then the returned set is changed by add or      *)
(* remove                                                                  *)
InitDerived ==
    /\ lst_a \in DerivedInputs
    /\ lst_b \in DerivedInputs
    /\ lst_c = <<>>
    /\ \E c \in {1, 3, 4, 8} : \E g \in GrowthFactors :
          heap = <<FromList(NewSet(c, g), lst_a), CreateSet(lst_b)>>
    /\ call = [op |-> "none", arg |-> <<>>, ret |-> 0, pre |-> <<>>]
    /\ it = [iter_index |-> -1, state |-> <<>>, out |-> <<>>]
    /\ pc = "built"
    /\ s = Empty
    /\ abs = {}
    /\ hist = [op |-> "new", key |-> EMPTY, removes |-> 0,
               initial_capacity |-> DefaultCapacity, only_new |-> TRUE,
               stored |-> FALSE, grew |-> FALSE]
    /\ r1 = Empty /\ r2 = Empty /\ r3 = Empty

(* a.concat(b): a is changed in place and returned *)
ConcatCall ==
    /\ pc = "built"
    /\ heap' = [heap EXCEPT ![1] = Concat(heap[1], heap[2])]
    /\ call' = [op |-> "concat", arg |-> <<>>, ret |-> 1, pre |-> heap]
    /\ pc' = "returned"
    /\ UNCHANGED <<machine, lst_a, lst_b, lst_c, r1, r2, r3, it>>

(* mutant of FilterCall: a is filtered in place and returned *)
FilterCallInPlace(predicate) ==
    /\ pc = "built"
    /\ heap' = [heap EXCEPT ![1] = Filter(heap[1], predicate)]
    /\ call' = [op |-> "filter", arg |-> predicate, ret |-> 1, pre |-> heap]
    /\ pc' = "returned"
    /\ UNCHANGED <<machine, lst_a, lst_b, lst_c, r1, r2, r3, it>>

(* a.filter(predicate): a new object is returned *)
FilterCall(predicate) ==
    /\ pc = "built"
    /\ heap' = Append(heap, Filter(heap[1], predicate))
    /\ call' = [op |-> "filter", arg |-> predicate, ret |-> Len(heap) + 1,
                pre |-> heap]
    /\ pc' = "returned"
    /\ UNCHANGED <<machine, lst_a, lst_b, lst_c, r1, r2, r3, it>>

(* a.map(func): a new object is returned *)
MapCall(func) ==
    /\ pc = "built"
    /\ heap' = Append(heap, Map(heap[1], func))
    /\ call' = [op |-> "map", arg |-> func, ret |-> Len(heap) + 1, pre |-> heap]
    /\ pc' = "returned"
    /\ UNCHANGED <<machine, lst_a, lst_b, lst_c, r1, r2, r3, it>>

(* add or remove on the set the call returned *)
AddReturned(key) ==
    /\ pc = "returned"
    /\ heap' = [heap EXCEPT ![call.ret] = Add(heap[call.ret], key)]
    /\ call' = [call EXCEPT !.pre = heap]
    /\ pc' = "changed"
    /\ UNCHANGED <<machine, lst_a, lst_b, lst_c, r1, r2, r3, it>>

RemoveReturned(key) ==
    /\ pc = "returned"
    /\ heap' = [heap EXCEPT ![call.ret] = Remove(heap[call.ret], key)]
    /\ call' = [call EXCEPT !.pre = heap]
    /\ pc' = "changed"
    /\ UNCHANGED <<machine, lst_a, lst_b, lst_c, r1, r2, r3, it>>

NextDerived ==
    \/ ConcatCall
    \/ \E predicate \in Predicates : FilterCall(predicate)
    \/ \E func \in Functions : MapCall(func)
    \/ \E key \in MutationKeys : AddReturned(key)
    \/ \E key \in MutationKeys : RemoveReturned(key)

SpecDerived == InitDerived /\ [][NextDerived]_vars

(* ---------------------- the machine of the iterations ---------------- *)
(* two clients iterate over the same set s, which no one changes; every    *)
(* client calls iter(s) once and then next() until StopIteration           *)
Clients == {1, 2}

IterInputs == {<<>>, <<1>>, <<1, 2, 3>>, <<0, 8, 3>>, <<5, 1, 4, 2>>}

InitIter ==
    /\ lst_a \in IterInputs
    /\ \E c \in {4, 8} :
          /\ s = FromList(NewSet(c, DefaultGrowthFactor), lst_a)
          /\ hist = [op |-> "from_list", key |-> EMPTY, removes |-> 0,
                     initial_capacity |-> c, only_new |-> TRUE,
               stored |-> FALSE, grew |-> FALSE]
    /\ abs = {lst_a[i] : i \in DOMAIN lst_a}
    /\ it = [iter_index |-> -1,
             state |-> [c \in Clients |-> "new"],
             out |-> [c \in Clients |-> <<>>]]
    /\ pc = "iterating"
    /\ lst_b = <<>> /\ lst_c = <<>>
    /\ r1 = Empty /\ r2 = Empty /\ r3 = Empty
    /\ heap = <<>>
    /\ call = [op |-> "none", arg |-> <<>>, ret |-> 0, pre |-> <<>>]

(* iter(s) by client c: __iter__ resets the index kept on the set *)
IterCall(c) ==
    /\ it.state[c] = "new"
    /\ it' = [it EXCEPT !.iter_index = 0, !.state[c] = "running"]
    /\ UNCHANGED <<machine, pc, lst_a, lst_b, lst_c, r1, r2, r3, heap, call>>

(* next() by client c on the object iter(s) returned, which is s itself *)
NextCall(c) ==
    /\ it.state[c] = "running"
    /\ LET res == NextFrom(s, it.iter_index)
       IN it' = IF res.raised = "StopIteration"
                THEN [it EXCEPT !.iter_index = res.iter_index,
                                !.state[c] = "stopped"]
                ELSE [it EXCEPT !.iter_index = res.iter_index,
                                !.out[c] = Append(@, res.key)]
    /\ UNCHANGED <<machine, pc, lst_a, lst_b, lst_c, r1, r2, r3, heap, call>>

NextIter ==
    \/ \E c \in Clients : IterCall(c)
    \/ \E c \in Clients : NextCall(c)

SpecIter == InitIter /\ [][NextIter]_vars

(* ------------------------------ helpers ------------------------------- *)
IsPrefix(p, q) == Len(p) <= Len(q) /\ \A i \in 1..Len(p) : p[i] = q[i]

Range(f) == {f[x] : x \in DOMAIN f}

Count(seq, e) == Cardinality({i \in DOMAIN seq : seq[i] = e})

(* Python's sorted() on a list of ints *)
RECURSIVE Insert(_, _)
Insert(sorted, e) ==
    IF sorted = <<>> THEN <<e>>
    ELSE IF e <= Head(sorted) THEN <<e>> \o sorted
         ELSE <<Head(sorted)>> \o Insert(Tail(sorted), e)

RECURSIVE Sorted(_)
Sorted(seq) == IF seq = <<>> THEN <<>> ELSE Insert(Sorted(Tail(seq)), Head(seq))

(* the states a running _resize passes through, one per finished loop turn *)
ResizeStates(set) ==
    {ReAdd(ResizeStart(set), set.buckets, 0, n) :
        n \in 0..Cardinality(DOMAIN set.buckets)}

(* every call so far was an add of a key never added before *)
PlainAdds == hist.only_new

(* the bucket reached d steps after the home bucket of key *)
WalkIndex(set, key, d) == ((PyHash(key) % set.capacity) + d) % set.capacity

(* the steps at which a walk for key stops: an Empty bucket or key itself *)
WalkStops(set, key) ==
    {d \in 0..(set.capacity - 1) :
        set.buckets[WalkIndex(set, key, d)] \in {EMPTY, key}}

(* the first bucket on the walk for key that is Empty or holds key *)
FirstStop(set, key) ==
    WalkIndex(set, key,
              CHOOSE d \in WalkStops(set, key) :
                  \A e \in WalkStops(set, key) : d <= e)

(* capacity is base times a power of growth_factor *)
RECURSIVE GrownFrom(_, _, _)
GrownFrom(capacity, base, growth_factor) ==
    \/ capacity = base
    \/ /\ capacity > base
       /\ capacity % growth_factor = 0
       /\ GrownFrom(capacity \div growth_factor, base, growth_factor)

(* ------------------------------ claims -------------------------------- *)

(* C1: after any sequence of adds and removes, member(k) is true exactly   *)
(* when k is in the abstract set built by the same adds and removes.       *)
MemberRefinesAbstractSet ==
    \A k \in Keys : (Member(s, k) = "True") <=> (k \in abs)

(* C2: after from_list(lst) on a new default set, size is the number of    *)
(* distinct elements of lst and to_list() holds each of them exactly once  *)
(* and nothing else.                                                       *)
FromListDistinct ==
    pc = "from_list" =>
        /\ s.status = "ok"
        /\ s.size = Cardinality(Range(lst_a))
        /\ \A e \in Range(lst_a) : Count(ToList(s), e) = 1
        /\ Range(ToList(s)) \subseteq Range(lst_a)

FromListDistinctWitness ==
    /\ pc = "from_list"
    /\ s.capacity = DefaultCapacity * 4
    /\ s.size < Len(lst_a)
    /\ \E i \in DOMAIN s.buckets : s.buckets[i] # EMPTY /\ Hash(s, s.buckets[i]) # i

(* C3: size equals the cardinality of the abstract set in every reachable  *)
(* state.                                                                  *)
SizeIsAbstractCardinality == s.size = Cardinality(abs)

NeverSaturated(set) ==
    /\ set.status = "ok"
    /\ set.size < set.capacity
    /\ \E i \in DOMAIN set.buckets : set.buckets[i] = EMPTY

ProbesTerminate(set) ==
    \A k \in Keys :
        /\ Probe(set, k) # -1
        /\ Member(set, k) # "loop"
        /\ Remove(set, k).status = "ok"
        /\ Add(set, k).status = "ok"

(* C4: size < capacity in every reachable state and in every state inside  *)
(* a resize; so there is an Empty slot and the probe loops of add, remove  *)
(* and member terminate.                                                   *)
SizeBelowCapacity ==
    /\ NeverSaturated(s)
    /\ ProbesTerminate(s)
    /\ OverLoad(s) => \A t \in ResizeStates(s) :
                         NeverSaturated(t) /\ ProbesTerminate(t)

SizeBelowCapacityWitness ==
    /\ hist.op = "add"
    /\ hist.removes > 0
    /\ s.capacity > hist.initial_capacity
    /\ s.size + 1 = s.capacity
    /\ OverLoad(s)

(* C5: add multiplies capacity by growth_factor exactly when               *)
(* 10*(size+1) > 7*capacity held at the start of the call, and leaves it   *)
(* unchanged otherwise; from capacity 4, factor 2: 8 after the 3rd         *)
(* distinct add, 8 after the 5th, 16 after the 6th; from capacity 1: 2     *)
(* after the 1st add, 4 after the 2nd (counting from a new set to which    *)
(* only distinct keys have been added).                                    *)
AddGrowsByLoadFactor ==
    /\ [][hist'.op = "add" =>
            s'.capacity = IF 10 * (s.size + 1) > 7 * s.capacity
                          THEN s.capacity * s.growth_factor
                          ELSE s.capacity]_vars
    /\ [](PlainAdds /\ s.growth_factor = 2 =>
            /\ hist.initial_capacity = 4 =>
                 /\ Cardinality(abs) \in {3, 5} => s.capacity = 8
                 /\ Cardinality(abs) = 6 => s.capacity = 16
            /\ hist.initial_capacity = 1 =>
                 /\ Cardinality(abs) = 1 => s.capacity = 2
                 /\ Cardinality(abs) = 2 => s.capacity = 4)

AddGrowsByLoadFactorWitness ==
    /\ hist.op = "add"
    /\ PlainAdds
    /\ hist.initial_capacity = 4
    /\ s.growth_factor = 2
    /\ Cardinality(abs) = 6
    /\ s.capacity = 16

SecondAddKeepsSize ==
    [][(hist.op = "add" /\ hist'.op = "add" /\ hist'.key = hist.key) =>
          s'.size = s.size]_vars

(* C8: a fresh default set filled from s.to_list() equals s: same size,    *)
(* every element of either is a member of the other.                       *)
RoundTripEqual ==
    LET t == FromList(Empty, ToList(s))
    IN /\ t.size = s.size
       /\ \A e \in Range(ToList(s)) : Member(t, e) = "True"
       /\ \A e \in Range(ToList(t)) : Member(s, e) = "True"

(* C9: empty() is a two-sided identity of concat: a.concat(empty()) and    *)
(* empty().concat(a) have the sorted to_list and the size of a.            *)
EmptyIsIdentity ==
    pc = "identity" =>
        /\ Sorted(ToList(r1)) = Sorted(ToList(r2))
        /\ r1.size = r2.size
        /\ Sorted(ToList(r3)) = Sorted(ToList(r2))
        /\ r3.size = r2.size

EmptyIsIdentityWitness ==
    /\ pc = "identity"
    /\ r2.size >= 3
    /\ r1.capacity = r2.capacity
    /\ r3.capacity # r2.capacity

(* C10: (a.concat(b)).concat(c) and a.concat(b.concat(c)) have the same    *)
(* sorted to_list and the same size.                                       *)
ConcatAssociative ==
    pc = "assoc" =>
        /\ Sorted(ToList(r1)) = Sorted(ToList(r2))
        /\ r1.size = r2.size

ConcatAssociativeWitness ==
    /\ pc = "assoc"
    /\ r1.capacity # r2.capacity
    /\ lst_b # <<>> /\ lst_c # <<>>

(* the keys stored in a set *)
Elements(set) == Range(ToList(set))

(* C11: a.concat(b) for two distinct sets built by add calls leaves in a   *)
(* exactly the union of the elements of a and b, each once, with size the  *)
(* cardinality of the union; it returns a itself; b is unchanged.          *)
ConcatIsUnionInPlace ==
    (pc = "returned" /\ call.op = "concat") =>
        LET a == call.pre[1]
            b == call.pre[2]
            union == Elements(a) \cup Elements(b)
        IN /\ heap[1].status = "ok"
           /\ Elements(heap[1]) = union
           /\ \A e \in union : Count(ToList(heap[1]), e) = 1
           /\ heap[1].size = Cardinality(union)
           /\ call.ret = 1
           /\ Len(heap) = 2
           /\ heap[2] = b

ConcatIsUnionInPlaceWitness ==
    /\ pc = "returned" /\ call.op = "concat"
    /\ heap[1].capacity > call.pre[1].capacity
    /\ Elements(call.pre[1]) \cap Elements(call.pre[2]) # {}
    /\ Elements(call.pre[2]) \ Elements(call.pre[1]) # {}

(* C12: s.filter(p) returns a new set holding exactly the elements of s    *)
(* that satisfy p, with the growth_factor of s and, after all insertions,  *)
(* the capacity of s (no resize on the way); s is unchanged.               *)
FilterKeepsMatching ==
    (pc = "returned" /\ call.op = "filter") =>
        LET a == call.pre[1]
            new_set == heap[call.ret]
            matching == {x \in Elements(a) : call.arg[x]}
        IN /\ call.ret = 3 /\ Len(heap) = 3
           /\ new_set.status = "ok"
           /\ Elements(new_set) = matching
           /\ \A e \in matching : Count(ToList(new_set), e) = 1
           /\ new_set.size = Cardinality(matching)
           /\ new_set.growth_factor = a.growth_factor
           /\ new_set.capacity = a.capacity
           /\ heap[1] = a

FilterKeepsMatchingWitness ==
    /\ pc = "returned" /\ call.op = "filter"
    /\ heap[3].size > 0
    /\ heap[3].size < heap[1].size
    /\ heap[3].buckets # [i \in DOMAIN heap[1].buckets |->
                            IF heap[1].buckets[i] # EMPTY /\ call.arg[heap[1].buckets[i]]
                            THEN heap[1].buckets[i] ELSE EMPTY]

(* C13: s.map(f) returns a new set holding exactly the image of s under f, *)
(* each value once, with size the number of distinct images (smaller than  *)
(* s.size when f is not injective on s); s is unchanged.                   *)
MapIsImage ==
    (pc = "returned" /\ call.op = "map") =>
        LET a == call.pre[1]
            new_set == heap[call.ret]
            image == {call.arg[x] : x \in Elements(a)}
        IN /\ call.ret = 3 /\ Len(heap) = 3
           /\ new_set.status = "ok"
           /\ Elements(new_set) = image
           /\ \A e \in image : Count(ToList(new_set), e) = 1
           /\ new_set.size = Cardinality(image)
           /\ (\E x, y \in Elements(a) : x # y /\ call.arg[x] = call.arg[y])
                 => new_set.size < a.size
           /\ heap[1] = a

MapIsImageWitness ==
    /\ pc = "returned" /\ call.op = "map"
    /\ heap[3].size > 1
    /\ heap[3].size < heap[1].size
    /\ ~(Elements(heap[3]) \subseteq Elements(heap[1]))

(* C14 as stated: the set returned by filter, map or concat shares no      *)
(* identity with the receiver or the argument, and an add or remove on it  *)
(* leaves the receiver unchanged.                                          *)
ReturnedSetIndependent ==
    /\ pc \in {"returned", "changed"} => call.ret \notin {1, 2}
    /\ pc = "changed" => heap[1] = call.pre[1]

(* C14 amended: the set returned by filter or map is a new object, and an  *)
(* add or remove on it leaves the receiver and b unchanged; concat returns *)
(* the receiver itself, so an add or remove on the returned set is one on  *)
(* the receiver, and it leaves the argument unchanged.                     *)
ReturnedSetIndependentOfArgument ==
    /\ (pc \in {"returned", "changed"} /\ call.op \in {"filter", "map"}) =>
          call.ret = 3
    /\ (pc \in {"returned", "changed"} /\ call.op = "concat") => call.ret = 1
    /\ pc = "changed" =>
          /\ heap[2] = call.pre[2]
          /\ call.op \in {"filter", "map"} => heap[1] = call.pre[1]
          /\ \A o \in DOMAIN heap : o # call.ret => heap[o] = call.pre[o]

ReturnedSetIndependentOfArgumentWitness ==
    /\ pc = "changed"
    /\ call.op = "filter"
    /\ heap[3] # call.pre[3]
    /\ heap[3].capacity > call.pre[3].capacity

(* C15: constructing a set with initial_capacity <= 0 or growth_factor < 2 *)
(* fails, so every set object has initial_capacity >= 1 and growth_factor  *)
(* >= 2, and no later call divides by zero, fills the table or loops       *)
(* forever.                                                                *)
BadConfigRejected ==
    s.status # "unconstructed" =>
        /\ hist.initial_capacity >= 1
        /\ s.growth_factor >= 2
        /\ s.status = "ok"
        /\ s.size < s.capacity

(* C16: two iterations over the same unchanged set do not disturb each     *)
(* other: what a client has been given so far is a prefix of the occupied  *)
(* buckets in index order, and when its iteration stops it has been given  *)
(* all of them.                                                            *)
IterationsIndependent ==
    \A c \in Clients :
        /\ IsPrefix(it.out[c], ToList(s))
        /\ it.state[c] = "stopped" => it.out[c] = ToList(s)

(* C17: remove(key) never changes capacity; when the walk from the home    *)
(* bucket of key reaches an Empty bucket first the set is unchanged,       *)
(* otherwise the first bucket on the walk that holds key becomes Empty,    *)
(* size goes down by 1 and every other bucket is unchanged.                *)
RemoveChangesOneBucket ==
    [][hist'.removes = hist.removes + 1 =>
          LET key == hist'.key
              index == FirstStop(s, key)
          IN /\ WalkStops(s, key) # {}
             /\ s'.capacity = s.capacity
             /\ IF s.buckets[index] = EMPTY
                THEN s' = s
                ELSE /\ s'.buckets = [s.buckets EXCEPT ![index] = EMPTY]
                     /\ s'.size = s.size - 1
                     /\ s'.growth_factor = s.growth_factor
                     /\ s'.status = "ok"]_vars

(* the one remove so far emptied a bucket on the walk of a key that is     *)
(* still stored behind it: nothing was shifted back                        *)
RemoveChangesOneBucketWitness ==
    /\ hist.op = "remove"
    /\ hist.removes = 1
    /\ hist.key \notin Elements(s)
    /\ \E k \in Elements(s) :
          /\ Member(s, k) = "False"
          /\ s.buckets[Hash(s, k)] = EMPTY

(* C18 as stated: add(k) on a set in which k is a member changes neither   *)
(* size nor capacity nor the bucket array.                                 *)
AddOfStoredKeyIsNoOp ==
    [][hist'.op = "add" /\ Member(s, hist'.key) = "True" =>
          /\ s'.size = s.size
          /\ s'.capacity = s.capacity
          /\ s'.buckets = s.buckets]_vars

(* C18 amended: add(k) on a set in which k is a member leaves size,        *)
(* capacity and the bucket array unchanged when (size + 1) / capacity is   *)
(* at most 0.7 at the call; otherwise capacity is multiplied by            *)
(* growth_factor, the stored keys stay the same set, size becomes their    *)
(* number, and k is still a member.                                        *)
AddOfStoredKeyMayResize ==
    [][hist'.op = "add" /\ Member(s, hist'.key) = "True" =>
          IF 10 * (s.size + 1) <= 7 * s.capacity
          THEN s' = s
          ELSE /\ s'.capacity = s.capacity * s.growth_factor
               /\ Elements(s') = Elements(s)
               /\ s'.size = Cardinality(Elements(s))
               /\ Member(s', hist'.key) = "True"
               /\ s'.status = "ok"]_vars

(* an add of a stored key has just rebuilt the table *)
AddOfStoredKeyMayResizeWitness ==
    /\ hist.op = "add"
    /\ hist.stored
    /\ hist.grew
    /\ hist.key \in Elements(s)

(* C19: the re-adds inside _resize never resize again: in an add that      *)
(* resizes, every state of the running _resize has the old capacity times  *)
(* growth_factor, and so has the set when add returns; when _resize        *)
(* returns the new table holds every key of the old table exactly once and *)
(* size is the number of these keys.                                       *)
NoNestedResize ==
    [][hist'.op = "add" /\ OverLoad(s) =>
          LET t == Resize(s)
          IN /\ \A u \in ResizeStates(s) :
                   /\ u.capacity = s.capacity * s.growth_factor
                   /\ u.status = "ok"
             /\ Elements(t) = Elements(s)
             /\ \A k \in Elements(t) : Count(ToList(t), k) = 1
             /\ t.size = Cardinality(Elements(s))
             /\ s'.capacity = s.capacity * s.growth_factor
             /\ s'.size \in {t.size, t.size + 1}]_vars

(* an add has just resized for the second time, after a remove, and the    *)
(* resize re-added at least three keys                                     *)
NoNestedResizeWitness ==
    /\ hist.op = "add"
    /\ hist.grew
    /\ hist.removes > 0
    /\ s.capacity = hist.initial_capacity * s.growth_factor * s.growth_factor
    /\ s.size >= 4

(* C20: between the calls of add, remove, from_list and concat, size is    *)
(* the number of non-Empty buckets, the bucket array has capacity entries, *)
(* capacity is initial_capacity times a power of growth_factor, and no     *)
(* call makes capacity smaller.                                            *)
RepresentationInvariant ==
    /\ [](/\ s.size = Cardinality({i \in DOMAIN s.buckets : s.buckets[i] # EMPTY})
          /\ DOMAIN s.buckets = 0..(s.capacity - 1)
          /\ GrownFrom(s.capacity, hist.initial_capacity, s.growth_factor))
    /\ [][s'.capacity >= s.capacity]_vars

(* a remove on a table that has grown: capacity is still the grown one and *)
(* size counts the occupied buckets although it is not the number of keys  *)
(* of the abstract set                                                     *)
RepresentationInvariantWitness ==
    /\ hist.op = "remove"
    /\ s.capacity > hist.initial_capacity
    /\ s.size > Cardinality(abs)
    /\ s.size = Len(ToList(s))
====
